---- MODULE Spec2Model ----
(***************************************************************************)
(* poe2-gpt backend: the tool-augmented orchestrator                       *)
(* (backend/app.py, ask_question_with_tools) and the schema adapter and    *)
(* helpers it uses (backend/utils.py).                                     *)
(*                                                                         *)
(* Python values are encoded as follows.                                   *)
(*   - an Optional value is a sequence of length 0 (None) or 1;            *)
(*   - a dict is a function whose domain is its set of keys;               *)
(*   - a list is a sequence;                                               *)
(*   - an object of the provider library (types.Schema, types.Part, ...)   *)
(*     is the record of the fields it was constructed with.                *)
(* The collaborators (tool registry, language model) answer with any value *)
(* of the small sets below.  A tool payload that parses as JSON is a JSON  *)
(* object, the shape dump_function_response declares as its result.        *)
(***************************************************************************)
EXTENDS Integers, Sequences, FiniteSets, TLC

\* ---------------------------------------------------------------- bounds
\* Largest number of tools list_tools returns.
MaxTools == 2

\* ------------------------------------------------------- Python helpers
None == <<>>
Some(v) == <<v>>
EmptyMap == [k \in {} |-> ""]

\* dict.pop(key) leaves the dict without the key.
Remove(d, key) == [k \in DOMAIN d \ {key} |-> d[k]]

\* d[key] = value on a dict that may or may not hold the key.
Put(d, key, value) == (key :> value) @@ d

\* Truthiness of an Optional str and of an Optional dict.
TruthyStr(o) == o # None /\ o[1] # ""
TruthyMap(o) == o # None /\ DOMAIN o[1] # {}

\* ------------------------------------------------------- schema adapter
\* A dict is iterated in insertion order; the keys of the schemas below
\* are inserted in this order.
KeyOrder == <<"type", "limit">>

RECURSIVE OrderedFrom(_, _)
OrderedFrom(keys, i) ==
    IF i > Len(KeyOrder) THEN <<>>
    ELSE IF KeyOrder[i] \in keys
         THEN <<KeyOrder[i]>> \o OrderedFrom(keys, i + 1)
         ELSE OrderedFrom(keys, i + 1)

Items(d) == OrderedFrom(DOMAIN d, 1)

\* A mapping whose default is STRING.
map_type_default_string(type_str) ==
    CASE type_str = "string"  -> "STRING"
      [] type_str = "integer" -> "INTEGER"
      [] type_str = "number"  -> "NUMBER"
      [] type_str = "boolean" -> "BOOLEAN"
      [] type_str = "array"   -> "ARRAY"
      [] type_str = "object"  -> "OBJECT"
      [] OTHER                -> "STRING"

map_type(type_str) ==
    CASE type_str = "string"  -> "STRING"
      [] type_str = "integer" -> "INTEGER"
      [] type_str = "number"  -> "NUMBER"
      [] type_str = "boolean" -> "BOOLEAN"
      [] type_str = "array"   -> "ARRAY"
      [] type_str = "object"  -> "OBJECT"
      [] OTHER                -> "TYPE_UNSPECIFIED"

\* The result of a call that may raise: raised, the value returned, and
\* the argument as the call leaves it (convert_schema changes it in place).
NoSchema == EmptyMap

RECURSIVE convert_schema(_), convert_properties(_, _)

\* The loop with a property name mistyped: the limit property is lost.
RECURSIVE convert_properties_dropping(_, _)
convert_properties_dropping(props, order) ==
    IF order = <<>>
    THEN [raised |-> FALSE, properties |-> EmptyMap, after |-> props]
    ELSE LET prop_name == Head(order)
             r == convert_schema(props[prop_name])
             props1 == [props EXCEPT ![prop_name] = r.after]
         IN  IF r.raised
             THEN [raised |-> TRUE, properties |-> EmptyMap, after |-> props1]
             ELSE LET rest == convert_properties_dropping(props1, Tail(order))
                  IN  [raised |-> rest.raised,
                       properties |-> IF prop_name = "limit" THEN rest.properties
                                      ELSE Put(rest.properties, prop_name, r.schema),
                       after |-> rest.after]

\* The loop of convert_schema over schema_dict["properties"].items():
\* order holds the property names still to convert.
convert_properties(props, order) ==
    IF order = <<>>
    THEN [raised |-> FALSE, properties |-> EmptyMap, after |-> props]
    ELSE LET prop_name == Head(order)
             r == convert_schema(props[prop_name])
             props1 == [props EXCEPT ![prop_name] = r.after]
         IN  IF r.raised
             THEN [raised |-> TRUE, properties |-> EmptyMap, after |-> props1]
             ELSE LET rest == convert_properties(props1, Tail(order))
                  IN  [raised |-> rest.raised,
                       properties |-> Put(rest.properties, prop_name, r.schema),
                       after |-> rest.after]

convert_schema(schema_dict) ==
    IF "type" \notin DOMAIN schema_dict
    THEN [raised |-> TRUE, schema |-> NoSchema, after |-> schema_dict]
    ELSE
    LET schema_type == schema_dict["type"]
        d1 == Remove(schema_dict, "type")
        p  == IF schema_type = "object" /\ "properties" \in DOMAIN d1
              THEN convert_properties(d1["properties"], Items(d1["properties"]))
              ELSE [raised |-> FALSE, properties |-> EmptyMap, after |-> EmptyMap]
        hasProps == schema_type = "object" /\ "properties" \in DOMAIN d1
        \* on a raise inside the loop the children converted so far stay
        \* changed and schema_dict["properties"] is not reassigned
        d2 == IF ~hasProps THEN d1
              ELSE IF p.raised THEN [d1 EXCEPT !["properties"] = p.after]
              ELSE [d1 EXCEPT !["properties"] = p.properties]
        hasItems == schema_type = "array" /\ "items" \in DOMAIN d2
        it == IF hasItems THEN convert_schema(d2["items"])
              ELSE [raised |-> FALSE, schema |-> NoSchema, after |-> EmptyMap]
        d3 == IF ~hasItems THEN d2
              ELSE IF it.raised THEN [d2 EXCEPT !["items"] = it.after]
              ELSE [d2 EXCEPT !["items"] = it.schema]
    IN  IF p.raised THEN [raised |-> TRUE, schema |-> NoSchema, after |-> d2]
        ELSE IF it.raised THEN [raised |-> TRUE, schema |-> NoSchema, after |-> d3]
        ELSE [raised |-> FALSE,
              schema |-> Put(d3, "type", map_type(schema_type)),
              after |-> d3]

\* The list comprehension of tools_res_to_gemini_func_declaration: the
\* tools are converted in list order and the first raise ends it.
RECURSIVE declarations_from(_, _)
declarations_from(tools, i) ==
    IF i > Len(tools)
    THEN [raised |-> FALSE, declarations |-> <<>>, after |-> tools]
    ELSE LET r == convert_schema(tools[i].inputSchema)
             tools1 == [tools EXCEPT ![i].inputSchema = r.after]
         IN  IF r.raised
             THEN [raised |-> TRUE, declarations |-> <<>>, after |-> tools1]
             ELSE LET rest == declarations_from(tools1, i + 1)
                      decl == [description |-> tools[i].description,
                               name |-> tools[i].name,
                               parameters |-> r.schema]
                  IN  [raised |-> rest.raised,
                       declarations |-> IF rest.raised THEN <<>>
                                        ELSE <<decl>> \o rest.declarations,
                       after |-> rest.after]

\* A conversion that drops the tools it cannot convert instead of raising.
RECURSIVE declarations_skipping(_, _)
declarations_skipping(tools, i) ==
    IF i > Len(tools)
    THEN [raised |-> FALSE, declarations |-> <<>>, after |-> tools]
    ELSE LET r == convert_schema(tools[i].inputSchema)
             tools1 == [tools EXCEPT ![i].inputSchema = r.after]
             rest == declarations_skipping(tools1, i + 1)
             decl == [description |-> tools[i].description,
                      name |-> tools[i].name,
                      parameters |-> r.schema]
         IN  [raised |-> FALSE,
              declarations |-> IF r.raised THEN rest.declarations
                               ELSE <<decl>> \o rest.declarations,
              after |-> rest.after]

tools_res_to_gemini_func_declaration_lenient(tools) ==
    declarations_skipping(tools, 1)

tools_res_to_gemini_func_declaration(tools) == declarations_from(tools, 1)

\* ------------------------------------------------- collaborator values
\* Parameter schemas a tool registry can declare (the first is the schema
\* of this backend's own get_items endpoint).
StringNode == [type |-> "string"]
UntypedNode == [description |-> "no type"]

GetItemsSchema ==
    [type |-> "object",
     properties |-> [type |-> StringNode],
     required |-> <<"type">>]

SearchSchema ==
    [type |-> "object",
     properties |-> [type |-> [type |-> "string", description |-> "item type"],
                     limit |-> [type |-> "array",
                                items |-> [type |-> "integer"]]]]

BadPropertySchema ==
    [type |-> "object",
     properties |-> [type |-> StringNode, limit |-> UntypedNode]]

BadItemsSchema ==
    [type |-> "object",
     properties |-> [limit |-> [type |-> "array", items |-> UntypedNode]]]

ToolSpec(name, schema) ==
    [name |-> name, description |-> "tool", inputSchema |-> schema]

ToolSpecs ==
    { ToolSpec("get_items", GetItemsSchema),
      ToolSpec("health_check", [type |-> "object", properties |-> EmptyMap]),
      ToolSpec("search", SearchSchema),
      ToolSpec("odd", [type |-> "float"]),
      ToolSpec("bad_root", UntypedNode),
      ToolSpec("bad_property", BadPropertySchema),
      ToolSpec("bad_items", BadItemsSchema) }

\* What list_tools can return.
ToolLists == UNION { [1..n -> ToolSpecs] : n \in 0..MaxTools }

Questions == {"What damage does a Heavy Crossbow deal?", "Which bows exist?"}

\* A content part of a model response: Optional text, Optional function
\* call whose name and args are Optional themselves.
TextPart(t) == [text |-> Some(t), function_call |-> None]
CallPart(name, args) ==
    [text |-> None, function_call |-> Some([name |-> name, args |-> args])]
OtherPart == [text |-> None, function_call |-> None]

\* A model response: its text property and its candidates; a candidate
\* has Optional content, the content a list of parts.
Response(text, parts) ==
    [text |-> text, candidates |-> <<[content |-> Some([parts |-> parts])]>>]

CallNames == {Some("get_items"), Some("no_such_tool"), Some(""), None}
CallArgs == {Some([type |-> "bow"]), Some(EmptyMap), None}

AnswerText == "Heavy Crossbow deals 8-10 damage"

Responses ==
    { Response(Some(AnswerText), <<TextPart(AnswerText)>>),
      Response(Some(AnswerText),
               <<TextPart(AnswerText),
                 CallPart(Some("get_items"), Some([type |-> "bow"]))>>),
      Response(Some(""), <<TextPart("")>>),
      Response(None, <<OtherPart>>),
      Response(None, <<>>),
      Response(None, <<CallPart(Some("get_items"), Some([type |-> "bow"])),
                       CallPart(Some("get_items"), Some([type |-> "crossbow"]))>>),
      [text |-> None, candidates |-> <<>>],
      [text |-> None, candidates |-> <<[content |-> None]>>] }
    \cup { Response(None, <<CallPart(n, a)>>) : n \in CallNames, a \in CallArgs }

\* A tool result: isError and a list of content items.
TextContent(t) == [type |-> "text", text |-> t]

ItemsJSON == "{\"items\": [{\"name\": \"Longbow\"}]}"
StatusJSON == "{\"status\": \"ok\"}"
PlainText == "Internal Server Error"
Truncated == "{\"items\": ["

ToolResults ==
    { [isError |-> FALSE, content |-> <<TextContent(ItemsJSON)>>],
      [isError |-> FALSE, content |-> <<TextContent(StatusJSON)>>],
      [isError |-> FALSE, content |-> <<TextContent(PlainText)>>],
      [isError |-> FALSE, content |-> <<TextContent(Truncated)>>],
      [isError |-> FALSE, content |-> <<TextContent("")>>],
      [isError |-> FALSE, content |-> <<[type |-> "image", text |-> ""]>>],
      [isError |-> FALSE, content |-> <<>>],
      [isError |-> TRUE, content |-> <<TextContent("Unknown tool")>>],
      [isError |-> TRUE, content |-> <<TextContent(ItemsJSON)>>] }

\* json.loads on the payloads above: the parsed object, or a raise.
json_loads(text) ==
    CASE text = ItemsJSON ->
           [raised |-> FALSE, value |-> [items |-> <<[name |-> "Longbow"]>>]]
      [] text = StatusJSON ->
           [raised |-> FALSE, value |-> [status |-> "ok"]]
      [] OTHER -> [raised |-> TRUE, value |-> EmptyMap]

\* ------------------------------------------------------------- helpers
Raise(exc, detail) == [status |-> "raised", exc |-> exc, detail |-> detail]
Return(answer) == [status |-> "returned", exc |-> "", detail |-> <<answer>>]
Running == [status |-> "running", exc |-> "", detail |-> <<>>]

\* dump_function_response without its isError check.
dump_function_response_ignoring_error(function_res) ==
    IF function_res.content = <<>>
    THEN [raised |-> TRUE, value |-> EmptyMap,
          error |-> Raise("IndexError", <<"list index out of range">>)]
    ELSE LET parsed == json_loads(function_res.content[1].text)
         IN  IF function_res.content[1].type # "text"
             THEN [raised |-> TRUE, value |-> EmptyMap,
                   error |-> Raise("AssertionError",
                       <<"Function res content must be a text content">>)]
             ELSE IF parsed.raised
             THEN [raised |-> TRUE, value |-> EmptyMap,
                   error |-> Raise("Exception",
                       <<"Respone from function call was not valid JSON: ",
                         function_res.content[1].text>>)]
             ELSE [raised |-> FALSE, value |-> parsed.value, error |-> Running]

\* dump_function_response with a message that leaves the payload out.
dump_function_response_without_payload(function_res) ==
    IF function_res.isError
    THEN [raised |-> TRUE, value |-> EmptyMap,
          error |-> Raise("Exception",
                          <<"Something went wrong when calling function">>)]
    ELSE IF function_res.content = <<>>
    THEN [raised |-> TRUE, value |-> EmptyMap,
          error |-> Raise("IndexError", <<"list index out of range">>)]
    ELSE LET parsed == json_loads(function_res.content[1].text)
         IN  IF function_res.content[1].type # "text"
             THEN [raised |-> TRUE, value |-> EmptyMap,
                   error |-> Raise("AssertionError",
                       <<"Function res content must be a text content">>)]
             ELSE IF parsed.raised
             THEN [raised |-> TRUE, value |-> EmptyMap,
                   error |-> Raise("Exception",
                       <<"Respone from function call was not valid JSON">>)]
             ELSE [raised |-> FALSE, value |-> parsed.value, error |-> Running]

\* dump_function_response: the parsed payload of the first content item,
\* or the exception raised.
dump_function_response(function_res) ==
    IF function_res.isError
    THEN [raised |-> TRUE, value |-> EmptyMap,
          error |-> Raise("Exception",
                          <<"Something went wrong when calling function">>)]
    ELSE IF function_res.content = <<>>
    THEN [raised |-> TRUE, value |-> EmptyMap,
          error |-> Raise("IndexError", <<"list index out of range">>)]
    ELSE LET function_res_content == function_res.content[1]
             parsed == json_loads(function_res_content.text)
         IN  IF function_res_content.type # "text"
             THEN [raised |-> TRUE, value |-> EmptyMap,
                   error |-> Raise("AssertionError",
                       <<"Function res content must be a text content">>)]
             ELSE IF parsed.raised
             THEN [raised |-> TRUE, value |-> EmptyMap,
                   error |-> Raise("Exception",
                       <<"Respone from function call was not valid JSON: ",
                         function_res_content.text>>)]
             ELSE [raised |-> FALSE, value |-> parsed.value, error |-> Running]

\* query_model: the request handed to client.models.generate_content.
\* The config carries the system instruction only; its tools entry is
\* commented out in the source, so function_declarations is not used.
query_model(content, function_declarations) ==
    [model |-> "gemini-2.0-flash",
     contents |-> content,
     config |-> [system_instruction |-> "poe2 assistant", tools |-> None]]

\* Messages of the content list.
UserContent(text) == [role |-> "user", parts |-> <<[text |-> text]>>]
ModelContent(name, args) ==
    [role |-> "model",
     parts |-> <<[function_call |-> [name |-> name, args |-> args]]>>]
ToolContent(name, response) ==
    [role |-> "tool",
     parts |-> <<[function_response |-> [name |-> name, response |-> response]]>>]

\* The two messages appended in the opposite order.
fold_back_tool_first(content, function_call, dict_function_res) ==
    content \o << ToolContent(function_call.name[1], dict_function_res),
                  ModelContent(function_call.name[1], function_call.args[1]) >>

\* The two messages the orchestrator appends after a tool call.
fold_back(content, function_call, dict_function_res) ==
    content \o << ModelContent(function_call.name[1], function_call.args[1]),
                  ToolContent(function_call.name[1], dict_function_res) >>

NoTextNorCalls ==
    Raise("HTTPException", <<"Ai response did not have text nor function calls">>)

Step(next, outcome) == [next |-> next, outcome |-> outcome]

\* The checks without the one on the number of parts.
response_without_text_any_parts(res) ==
    IF res.candidates = <<>>
    THEN Step("exit", Raise("AssertionError",
                            <<"AI Response must have candidates">>))
    ELSE IF res.candidates[1].content = None
    THEN Step("exit", Raise("AssertionError",
                            <<"First AI Response must have content">>))
    ELSE IF res.candidates[1].content[1].parts = <<>>
    THEN Step("exit", Raise("IndexError", <<"list index out of range">>))
    ELSE LET part == res.candidates[1].content[1].parts[1]
         IN  IF part.function_call # None
                /\ TruthyStr(part.function_call[1].name)
             THEN IF TruthyMap(part.function_call[1].args)
                  THEN Step("call", Running)
                  ELSE Step("exit", Raise("AssertionError",
                            <<"Function call must have name and args">>))
             ELSE Step("exit", NoTextNorCalls)

\* The checks on a model response that carries no text: raise, or go on
\* to call the tool its single part requests.
response_without_text(res) ==
    IF res.candidates = <<>>
    THEN Step("exit", Raise("AssertionError",
                            <<"AI Response must have candidates">>))
    ELSE IF res.candidates[1].content = None
    THEN Step("exit", Raise("AssertionError",
                            <<"First AI Response must have content">>))
    ELSE IF Len(res.candidates[1].content[1].parts) # 1
    THEN Step("exit", Raise("AssertionError",
                            <<"Content must have exactly one part">>))
    ELSE LET part == res.candidates[1].content[1].parts[1]
         IN  IF part.function_call # None
                /\ TruthyStr(part.function_call[1].name)
             THEN IF TruthyMap(part.function_call[1].args)
                  THEN Step("call", Running)
                  ELSE Step("exit", Raise("AssertionError",
                            <<"Function call must have name and args">>))
             ELSE Step("exit", NoTextNorCalls)

\* The checks run before the text is looked at.
after_first_response_checks_first(res) ==
    LET checked == response_without_text(res)
    IN  IF checked.outcome.exc = "AssertionError" THEN checked
        ELSE IF TruthyStr(res.text) THEN Step("exit", Return(res.text[1]))
        ELSE checked

\* What the orchestrator does with the first model response: return its
\* text at once, or else run the checks above.
after_first_response(res) ==
    IF TruthyStr(res.text) THEN Step("exit", Return(res.text[1]))
    ELSE response_without_text(res)

\* A second response that asks for a tool is served like the first.
after_second_response_serving_calls(res) ==
    IF TruthyStr(res.text) THEN Step("exit", Return(res.text[1]))
    ELSE IF response_without_text(res).next = "call" THEN Step("call", Running)
    ELSE Step("exit", NoTextNorCalls)

\* What it does with the second model response: return its text or raise.
after_second_response(res) ==
    IF TruthyStr(res.text) THEN Step("exit", Return(res.text[1]))
    ELSE Step("exit", NoTextNorCalls)

\* session.call_tool given the name without the args.
call_tool_request_without_args(function_call) ==
    [name |-> function_call.name[1], args |-> EmptyMap]

\* The arguments of session.call_tool.
call_tool_request(function_call) ==
    [name |-> function_call.name[1], args |-> function_call.args[1]]

\* A session released on a return only.
session_on_exit_return_only(status) ==
    IF status = "returned" THEN "closed" ELSE "initialized"

\* Leaving the two async with blocks, by a return or by an exception,
\* closes the ClientSession and the sse_client.
session_on_exit(status) == "closed"

\* ---------------------------------------------------------------- state
VARIABLES
    pc,            \* position in ask_question_with_tools
    question,      \* body.question
    session,       \* the tool-registry session
    session_log,   \* the operations performed on the session, in order
    listed_tools,  \* the tools as list_tools returned them
    tools,         \* tools_res.tools
    declarations,  \* the function declarations built from the tools
    content,       \* the content list
    ai_res,        \* the latest model response
    function_res,  \* the result of call_tool
    model_calls,   \* every generate_content call: request and response
    tool_calls,    \* every call_tool call: name, args and result
    result         \* the outcome of the request

vars == <<pc, question, session, session_log, listed_tools, tools, declarations, content,
          ai_res, function_res, model_calls, tool_calls, result>>

NoResponse == [text |-> None, candidates |-> <<>>]
NoToolResult == [isError |-> FALSE, content |-> <<>>]

Init ==
    /\ pc = "start"
    /\ question \in Questions
    /\ session = "unopened"
    /\ session_log = <<>>
    /\ listed_tools = <<>>
    /\ tools = <<>>
    /\ declarations = <<>>
    /\ content = <<>>
    /\ ai_res = NoResponse
    /\ function_res = NoToolResult
    /\ model_calls = <<>>
    /\ tool_calls = <<>>
    /\ result = Running

\* A return or a raise inside the two async with blocks: the outcome is
\* decided, the session and the stream are still to be released.
Exit(outcome) ==
    /\ result' = outcome
    /\ pc' = "exiting"
    /\ UNCHANGED <<session, session_log>>

\* async with sse_client(...): the stream is open, no session yet
EnterSse ==
    /\ pc = "start"
    /\ session' = "sse_open"
    /\ session_log' = Append(session_log, "sse_open")
    /\ pc' = "sse_entered"
    /\ UNCHANGED <<question, listed_tools, tools, declarations, content,
                   ai_res, function_res, model_calls, tool_calls, result>>

\* async with ClientSession(read, write) as session
EnterSession ==
    /\ pc = "sse_entered"
    /\ session' = "open"
    /\ session_log' = Append(session_log, "open")
    /\ pc' = "entered"
    /\ UNCHANGED <<question, listed_tools, tools, declarations, content,
                   ai_res, function_res, model_calls, tool_calls, result>>

\* await session.initialize()
Initialize ==
    /\ pc = "entered"
    /\ session' = "initialized"
    /\ session_log' = Append(session_log, "initialize")
    /\ pc' = "initialized"
    /\ UNCHANGED <<question, listed_tools, tools, declarations, content,
                   ai_res, function_res, model_calls, tool_calls, result>>

\* tools_res = await session.list_tools()
ListTools ==
    /\ pc = "initialized"
    /\ \E listed \in ToolLists :
          /\ listed_tools' = listed
          /\ tools' = listed
    /\ session_log' = Append(session_log, "list_tools")
    /\ pc' = "listed"
    /\ UNCHANGED <<question, session, declarations, content, ai_res,
                   function_res, model_calls, tool_calls, result>>

\* declarations = tools_res_to_gemini_func_declaration(tools_res.tools)
\* and the initial content; a ValueError of convert_schema ends the request.
BuildDeclarations ==
    /\ pc = "listed"
    /\ \E r \in {tools_res_to_gemini_func_declaration(tools)} :
           /\ tools' = r.after
           /\ IF r.raised
              THEN /\ Exit(Raise("ValueError",
                                 <<"types.Schema missing 'type' field">>))
                   /\ UNCHANGED <<declarations, content>>
              ELSE /\ declarations' = r.declarations
                   /\ content' = <<UserContent(question)>>
                   /\ pc' = "await_model"
                   /\ UNCHANGED <<session, session_log, result>>
    /\ UNCHANGED <<question, listed_tools, ai_res, function_res, model_calls,
                   tool_calls>>

\* part = ai_res.candidates[0].content.parts[0], once the checks passed.
part == ai_res.candidates[1].content[1].parts[1]

\* Moving on after a model response.
Continue(step) ==
    IF step.next = "call"
    THEN /\ pc' = "tool_requested"
         /\ UNCHANGED <<session, session_log, result>>
    ELSE Exit(step.outcome)

\* ai_res = query_model(content, declarations) and the checks on it
QueryModel ==
    /\ pc = "await_model"
    /\ \E res \in Responses :
          /\ ai_res' = res
          /\ model_calls' = Append(model_calls,
                 [request |-> query_model(content, declarations),
                  response |-> res])
          /\ Continue(after_first_response(res))
    /\ UNCHANGED <<question, listed_tools, tools, declarations, content,
                   function_res, tool_calls>>

\* function_res = await session.call_tool(name, args)
CallTool ==
    /\ pc = "tool_requested"
    /\ \E res \in ToolResults :
          /\ function_res' = res
          /\ tool_calls' = Append(tool_calls,
                 [request |-> call_tool_request(part.function_call[1]),
                  result |-> res])
    /\ session_log' = Append(session_log, "call_tool")
    /\ pc' = "tool_returned"
    /\ UNCHANGED <<question, session, listed_tools, tools, declarations,
                   content, ai_res, model_calls, result>>

\* dict_function_res = dump_function_response(function_res) and the two
\* content.append calls
FoldBack ==
    /\ pc = "tool_returned"
    /\ LET d == dump_function_response(function_res)
       IN  IF d.raised
           THEN /\ Exit(d.error)
                /\ UNCHANGED content
           ELSE /\ content' = fold_back(content, part.function_call[1], d.value)
                /\ pc' = "await_model_2"
                /\ UNCHANGED <<session, session_log, result>>
    /\ UNCHANGED <<question, listed_tools, tools, declarations, ai_res,
                   function_res, model_calls, tool_calls>>

\* ai_res = query_model(content, declarations) after the tool call, the
\* return of its text or the final HTTPException
QueryModelAgain ==
    /\ pc = "await_model_2"
    /\ \E res \in Responses :
          /\ ai_res' = res
          /\ model_calls' = Append(model_calls,
                 [request |-> query_model(content, declarations),
                  response |-> res])
          /\ Continue(after_second_response(res))
    /\ UNCHANGED <<question, listed_tools, tools, declarations, content,
                   function_res, tool_calls>>

\* ClientSession.__aexit__, awaited on the way out of the inner block
ExitSession ==
    /\ pc = "exiting"
    /\ session' = IF session_on_exit(result.status) = "closed"
                  THEN "sse_open" ELSE session
    /\ session_log' = IF session_on_exit(result.status) = "closed"
                      THEN Append(session_log, "close") ELSE session_log
    /\ pc' = "exiting_sse"
    /\ UNCHANGED <<question, listed_tools, tools, declarations, content,
                   ai_res, function_res, model_calls, tool_calls, result>>

\* sse_client.__aexit__, awaited on the way out of the outer block; the
\* handler's return or exception reaches the caller after it.
ExitSse ==
    /\ pc = "exiting_sse"
    /\ session' = session_on_exit(result.status)
    /\ session_log' = IF session_on_exit(result.status) = "closed"
                      THEN Append(session_log, "sse_close") ELSE session_log
    /\ pc' = "done"
    /\ UNCHANGED <<question, listed_tools, tools, declarations, content,
                   ai_res, function_res, model_calls, tool_calls, result>>

\* --------------------------------------------- state of the other parts
VARIABLES
    next_node,      \* retrieval graph: the next_node to run next
    messages,       \* retrieval graph: state["messages"]
    node_runs,      \* retrieval graph: the nodes run so far, in order
    searches,       \* every poe_store.similarity_search call: query and k
    llm_calls,      \* every llm invoke of the graph: next_node, bound tools, input
    tool_messages,  \* generate: the trailing tool messages it collected
    ask_answer      \* what /ask returns

graph_vars == <<next_node, messages, node_runs, searches, llm_calls,
                tool_messages, ask_answer>>

VARIABLES
    schema_in,      \* schema adapter: the tree as first handed over
    schema_dict,    \* schema adapter: the same dict object, as it is now
    conversions     \* schema adapter: the outcome of each conversion so far

schema_vars == <<schema_in, schema_dict, conversions>>

VARIABLES
    base_items,     \* ingestion: what the base_items URL serves
    store,          \* ingestion: the poe collection, id -> document
    runs            \* ingestion: the outcome of each run of main so far

ingest_vars == <<base_items, store, runs>>

VARIABLES
    attack_duration_ms,   \* unit conversion: the argument
    attacks_per_second    \* unit conversion: the outcome

aps_vars == <<attack_duration_ms, attacks_per_second>>

VARIABLES
    requests,       \* concurrent requests: the local variables of each
    connections     \* calls made on the shared model client and vector store
request_vars == <<requests, connections>>

all_vars == <<vars, graph_vars, schema_vars, ingest_vars, aps_vars, request_vars>>

\* A part that takes no step in a specification stays as follows.
GraphIdle ==
    /\ next_node = "idle"
    /\ messages = <<>>
    /\ node_runs = <<>>
    /\ searches = <<>>
    /\ llm_calls = <<>>
    /\ tool_messages = <<>>
    /\ ask_answer = None

SchemaIdle ==
    /\ schema_in = EmptyMap
    /\ schema_dict = EmptyMap
    /\ conversions = <<>>

IngestIdle ==
    /\ base_items = EmptyMap
    /\ store = <<>>
    /\ runs = <<>>

ApsIdle ==
    /\ attack_duration_ms = 0
    /\ attacks_per_second = None

OrchestratorIdle ==
    /\ pc = "idle"
    /\ question = ""
    /\ session = "unopened"
    /\ session_log = <<>>
    /\ listed_tools = <<>>
    /\ tools = <<>>
    /\ declarations = <<>>
    /\ content = <<>>
    /\ ai_res = NoResponse
    /\ function_res = NoToolResult
    /\ model_calls = <<>>
    /\ tool_calls = <<>>
    /\ result = Running

\* ------------------------------------- the orchestrator's specification
RequestsIdle ==
    /\ requests = <<>>
    /\ connections = [model_client |-> 0, vector_store |-> 0]

others == <<graph_vars, schema_vars, ingest_vars, aps_vars, request_vars>>

Next ==
    \/ EnterSse /\ UNCHANGED others
    \/ EnterSession /\ UNCHANGED others
    \/ Initialize /\ UNCHANGED others
    \/ ListTools /\ UNCHANGED others
    \/ BuildDeclarations /\ UNCHANGED others
    \/ QueryModel /\ UNCHANGED others
    \/ CallTool /\ UNCHANGED others
    \/ FoldBack /\ UNCHANGED others
    \/ QueryModelAgain /\ UNCHANGED others
    \/ ExitSession /\ UNCHANGED others
    \/ ExitSse /\ UNCHANGED others

InitOrchestrator ==
    Init /\ GraphIdle /\ SchemaIdle /\ IngestIdle /\ ApsIdle /\ RequestsIdle

Spec == InitOrchestrator /\ [][Next]_all_vars

\* =============================================================== claims
\* The failures of the spec's taxonomy, as the code raises them.
SchemaError == Raise("ValueError", <<"types.Schema missing 'type' field">>)
ToolExecutionError ==
    Raise("Exception", <<"Something went wrong when calling function">>)
MalformedModelResponse ==
    Raise("AssertionError", <<"Content must have exactly one part">>)
NoTextualAnswer == NoTextNorCalls

FirstResponse == model_calls[1].response
SecondResponse == model_calls[2].response
HasContent(res) == res.candidates # <<>> /\ res.candidates[1].content # None
Parts(res) == IF HasContent(res) THEN res.candidates[1].content[1].parts ELSE <<>>
IsCall(p) == p.function_call # None

\* The outcome of the request is decided: the handler has returned or
\* raised and is leaving, or has left, the two async with blocks.
Ended == pc \in {"exiting", "exiting_sse", "done"}

CarriesCall(res) == \E i \in 1..Len(Parts(res)) : IsCall(Parts(res)[i])

\* C1: call_tool is invoked at most once and the model at most twice in a
\* request; a second model response without text (a further tool call
\* included) ends the request in NoTextualAnswer.
C1_SingleHopBound ==
    /\ Len(tool_calls) <= 1
    /\ Len(model_calls) <= 2
    /\ (Len(model_calls) = 2 /\ ~TruthyStr(SecondResponse.text))
         => /\ Ended
            /\ result = NoTextualAnswer
            /\ Len(tool_calls) = 1

C1_Witness ==
    /\ pc = "done"
    /\ Len(model_calls) = 2
    /\ response_without_text(SecondResponse).next = "call"
    /\ result = NoTextualAnswer
    /\ Len(tool_calls) = 1

\* C2 as claimed: whenever the first model response carries no text and a
\* tool-call request, whatever its name and args, call_tool has been
\* invoked exactly once when the request ends.
C2_AnyCallExecuted ==
    (pc = "done" /\ Len(model_calls) >= 1
       /\ ~TruthyStr(FirstResponse.text) /\ CarriesCall(FirstResponse))
      => Len(tool_calls) = 1

\* The first response carries no text and exactly one part, a tool-call
\* request with a non-empty name and a non-empty args mapping.
SingleUsableCall(res) ==
    /\ ~TruthyStr(res.text)
    /\ Len(Parts(res)) = 1
    /\ IsCall(Parts(res)[1])
    /\ TruthyStr(Parts(res)[1].function_call[1].name)
    /\ TruthyMap(Parts(res)[1].function_call[1].args)

\* C2 amended: when the first model response carries no text and exactly
\* one part that is a tool-call request with a non-empty name and
\* non-empty args, call_tool is invoked exactly once, with that name and
\* those args.
C2_SingleCallExecutedOnce ==
    (Len(model_calls) >= 1 /\ SingleUsableCall(FirstResponse))
      => /\ pc = "tool_requested" => tool_calls = <<>>
         /\ pc # "tool_requested"
              => /\ Len(tool_calls) = 1
                 /\ tool_calls[1].request =
                      [name |-> Parts(FirstResponse)[1].function_call[1].name[1],
                       args |-> Parts(FirstResponse)[1].function_call[1].args[1]]

C2_Witness ==
    /\ pc = "done"
    /\ Len(model_calls) = 2
    /\ SingleUsableCall(FirstResponse)
    /\ tool_calls[1].request = [name |-> "no_such_tool", args |-> [type |-> "bow"]]

\* C3: every model invocation is given the function declarations built
\* from the tools list_tools returned.
C3_ModelGivenDeclarations ==
    \A i \in 1..Len(model_calls) :
        model_calls[i].request.config.tools = Some(declarations)

\* C4: after a successful tool execution the content is the content of
\* the first model call extended by the assistant message with the
\* requested name and args and then the tool message with the parsed
\* JSON under the same name, and this is what the second model call sees.
C4_FoldBack ==
    (Len(tool_calls) = 1 /\ pc \in {"await_model_2", "done"}
       /\ ~dump_function_response(tool_calls[1].result).raised)
      => LET call == Parts(FirstResponse)[1].function_call[1]
             payload == tool_calls[1].result.content[1].text
         IN  /\ model_calls[1].request.contents = <<UserContent(question)>>
             /\ content = model_calls[1].request.contents
                   \o << ModelContent(call.name[1], call.args[1]),
                         ToolContent(call.name[1], json_loads(payload).value) >>
             /\ Len(model_calls) = 2 => model_calls[2].request.contents = content
             /\ pc = "done" => Len(model_calls) = 2

C4_Witness ==
    /\ pc = "done"
    /\ Len(model_calls) = 2
    /\ Len(content) = 3
    /\ content[3].parts[1].function_response.response = [status |-> "ok"]

\* C5: a tool result with is_error true ends the request in
\* ToolExecutionError: nothing is appended to the content, the model is
\* not called again, the tool is not called again, no answer is returned.
C5_ToolErrorFatal ==
    (Len(tool_calls) >= 1 /\ tool_calls[1].result.isError)
      => /\ (pc = "tool_returned" \/ Ended)
         /\ Ended => result = ToolExecutionError
         /\ content = <<UserContent(question)>>
         /\ Len(model_calls) = 1
         /\ Len(tool_calls) = 1

C5_Witness ==
    /\ pc = "done"
    /\ Len(tool_calls) = 1
    /\ tool_calls[1].result.isError
    /\ tool_calls[1].result.content[1].text = ItemsJSON
    /\ result = ToolExecutionError

\* The tool result is no error and its first content item is text that
\* does not parse as JSON.
NotJSON(res) ==
    /\ ~res.isError
    /\ res.content # <<>>
    /\ res.content[1].type = "text"
    /\ json_loads(res.content[1].text).raised

Carries(detail, text) == \E i \in 1..Len(detail) : detail[i] = text

\* C6 as claimed: a payload that is not JSON ends the request in a failure
\* that carries the raw payload text and the name of the tool called.
C6_NotJSONCarriesTextAndToolName ==
    (Ended /\ Len(tool_calls) = 1 /\ NotJSON(tool_calls[1].result))
      => /\ result.status = "raised"
         /\ Carries(result.detail, tool_calls[1].result.content[1].text)
         /\ Carries(result.detail, tool_calls[1].request.name)

\* What the code keeps of C6: a payload that is not JSON ends the request
\* in the failure of dump_function_response, whose message is made of the
\* raw payload text alone; the model is not called a second time.
C6_NotJSONCarriesText ==
    (Len(tool_calls) = 1 /\ NotJSON(tool_calls[1].result))
      => /\ (pc = "tool_returned" \/ Ended)
         /\ Ended =>
              result = Raise("Exception",
                  <<"Respone from function call was not valid JSON: ",
                    tool_calls[1].result.content[1].text>>)
         /\ Len(model_calls) = 1

C6_Witness ==
    /\ pc = "done"
    /\ Len(tool_calls) = 1
    /\ NotJSON(tool_calls[1].result)
    /\ Carries(result.detail, Truncated)

\* C7: a first response without text whose content has zero parts or more
\* than one part ends the request in MalformedModelResponse, and one whose
\* single part is no tool-call request ends it in a failure too; in both
\* cases call_tool is never invoked and the model is not called again.
C7_MalformedResponse ==
    (Len(model_calls) >= 1 /\ ~TruthyStr(FirstResponse.text)
       /\ HasContent(FirstResponse))
      => /\ Len(Parts(FirstResponse)) # 1
              => /\ Ended
                 /\ result = MalformedModelResponse
                 /\ tool_calls = <<>>
                 /\ Len(model_calls) = 1
         /\ (Len(Parts(FirstResponse)) = 1 /\ ~IsCall(Parts(FirstResponse)[1]))
              => /\ Ended
                 /\ result.status = "raised"
                 /\ tool_calls = <<>>
                 /\ Len(model_calls) = 1

C7_Witness ==
    /\ pc = "done"
    /\ Len(model_calls) = 1
    /\ Len(Parts(FirstResponse)) = 2
    /\ CarriesCall(FirstResponse)
    /\ result = MalformedModelResponse

\* C8: a first response that carries text is returned as the answer, with
\* no call_tool invocation and one model call, also when tools were
\* declared and the response carries a tool-call part as well.
C8_DirectAnswer ==
    (Len(model_calls) >= 1 /\ TruthyStr(FirstResponse.text))
      => /\ Ended
         /\ result = Return(FirstResponse.text[1])
         /\ tool_calls = <<>>
         /\ Len(model_calls) = 1

C8_Witness ==
    /\ pc = "done"
    /\ declarations # <<>>
    /\ Len(model_calls) = 1
    /\ TruthyStr(FirstResponse.text)
    /\ CarriesCall(FirstResponse)
    /\ result = Return(AnswerText)

\* C9: the stream and the session are opened and the session initialized
\* before list_tools, every operation on the session happens while it is
\* initialized, and it is released on every exit path: once the outcome
\* is decided the session is closed, then the stream, and no request
\* ends (pc = "done", where no action is enabled) with either still open.
C9_SessionScoped ==
    /\ \A i \in 1..Len(session_log) :
          session_log[i] \in {"list_tools", "call_tool"}
            => /\ i >= 4
               /\ session_log[1] = "sse_open"
               /\ session_log[2] = "open"
               /\ session_log[3] = "initialize"
               /\ \A j \in 1..i : session_log[j] \notin {"close", "sse_close"}
    /\ pc = "exiting_sse" => session = "sse_open"
    /\ pc = "done"
         => /\ session = "closed"
            /\ session_log[Len(session_log) - 1] = "close"
            /\ session_log[Len(session_log)] = "sse_close"
    /\ session = "closed" => pc = "done"

C9_Witness ==
    /\ pc = "done"
    /\ session = "closed"
    /\ result.status = "raised"
    /\ Len(tool_calls) = 1
    /\ NotJSON(tool_calls[1].result)

\* A schema node, or a node below it in properties or items, lacks type.
RECURSIVE LacksType(_)
LacksType(node) ==
    \/ "type" \notin DOMAIN node
    \/ /\ "properties" \in DOMAIN node
       /\ \E k \in DOMAIN node["properties"] : LacksType(node["properties"][k])
    \/ /\ "items" \in DOMAIN node
       /\ LacksType(node["items"])

\* C10: when a listed tool's schema lacks the type at the root or at a
\* nested property or items node, the request ends in SchemaError with no
\* model call and no call_tool invocation.
C10_SchemaErrorFailsFast ==
    (\E i \in 1..Len(listed_tools) : LacksType(listed_tools[i].inputSchema))
      => /\ (pc = "listed" \/ Ended)
         /\ Ended => result = SchemaError
         /\ model_calls = <<>>
         /\ tool_calls = <<>>

C10_Witness ==
    /\ pc = "done"
    /\ result = SchemaError
    /\ Len(listed_tools) = 2
    /\ ~LacksType(listed_tools[1].inputSchema)
    /\ listed_tools[2].inputSchema = BadItemsSchema

\* ======================================================= retrieval graph
\* (backend/app.py: retrieve, query_or_respond, tools, generate, graph and
\* ask_question).  A str is the sequence of the fragments it is made of,
\* so that an f-string or a join is the concatenation of its pieces.

\* Largest number of messages in a state handed to generate directly.
MaxMessages == 4

\* "sep".join(strs)
RECURSIVE Join(_, _)
Join(sep, strs) ==
    IF strs = <<>> THEN <<>>
    ELSE IF Len(strs) = 1 THEN strs[1]
    ELSE strs[1] \o <<sep>> \o Join(sep, Tail(strs))

\* Messages of langchain_core: type, content, the tool calls of an ai
\* message, and the tool call id and artifact of a tool message.
Message(type, text, calls, id, artifact) ==
    [type |-> type, content |-> text, tool_calls |-> calls,
     tool_call_id |-> id, artifact |-> artifact]
HumanMessage(text) == Message("human", text, <<>>, "", <<>>)
SystemMessage(text) == Message("system", text, <<>>, "", <<>>)
AIMessage(text, calls) == Message("ai", text, calls, "", <<>>)
ToolMessage(text, id, artifact) == Message("tool", text, <<>>, id, artifact)

ToolCall(name, query, id) == [name |-> name, args |-> [query |-> query], id |-> id]

\* Documents of the vector store and the lists similarity_search returns.
Longbow == [page_content |-> "Name: Longbow", metadata |-> [name |-> "Longbow"]]
Shortbow == [page_content |-> "Name: Shortbow", metadata |-> [name |-> "Shortbow"]]
Contexts == { <<>>, <<Longbow>>, <<Shortbow>>, <<Longbow, Shortbow>> }

\* str(doc.metadata)
str_metadata(metadata) ==
    CASE metadata = [name |-> "Longbow"]  -> "{'name': 'Longbow'}"
      [] metadata = [name |-> "Shortbow"] -> "{'name': 'Shortbow'}"
      [] OTHER -> "{}"

RECURSIVE serialize_docs(_)
serialize_docs(context) ==
    IF context = <<>> THEN <<>>
    ELSE << <<"Source: ", str_metadata(context[1].metadata),
              "\n Content: ", context[1].page_content>> >>
         \o serialize_docs(Tail(context))

\* retrieve(query), given what similarity_search(query, k=15) returned:
\* the serialized text and the documents.
retrieve(context) ==
    [serialized |-> Join("\n\n", serialize_docs(context)), artifact |-> context]

SearchK == 15

\* tools = ToolNode([retrieve]): one tool message per tool call of the
\* last message, in order; a call of another tool is answered with an
\* error message and no search.  contexts[i] is what similarity_search
\* returns for the i-th call.
IsRetrieve(call) == call.name = "retrieve"

RECURSIVE tool_node_messages(_, _, _)
tool_node_messages(calls, contexts, i) ==
    IF i > Len(calls) THEN <<>>
    ELSE <<IF IsRetrieve(calls[i])
           THEN ToolMessage(retrieve(contexts[i]).serialized, calls[i].id,
                            retrieve(contexts[i]).artifact)
           ELSE ToolMessage(<<"Error: ", calls[i].name, " is not a valid tool">>,
                            calls[i].id, <<>>)>>
         \o tool_node_messages(calls, contexts, i + 1)

RECURSIVE tool_node_searches(_, _)
tool_node_searches(calls, i) ==
    IF i > Len(calls) THEN <<>>
    ELSE (IF IsRetrieve(calls[i])
          THEN <<[query |-> calls[i].args.query, k |-> SearchK]>>
          ELSE <<>>)
         \o tool_node_searches(calls, i + 1)

\* A backward scan that does not stop at the first other message.
RECURSIVE recent_tool_messages_past_others(_)
recent_tool_messages_past_others(msgs) ==
    IF msgs = <<>> THEN <<>>
    ELSE (IF msgs[Len(msgs)].type = "tool" THEN <<msgs[Len(msgs)]>> ELSE <<>>)
         \o recent_tool_messages_past_others(SubSeq(msgs, 1, Len(msgs) - 1))

\* generate, lines 68-74: the tool messages at the end of the sequence,
\* collected backwards and put back in their order.
RECURSIVE recent_tool_messages(_)
recent_tool_messages(msgs) ==
    IF msgs = <<>> THEN <<>>
    ELSE IF msgs[Len(msgs)].type = "tool"
         THEN <<msgs[Len(msgs)]>> \o recent_tool_messages(SubSeq(msgs, 1, Len(msgs) - 1))
         ELSE <<>>

Reversed(seq) == [i \in 1..Len(seq) |-> seq[Len(seq) + 1 - i]]

\* The window without the [::-1].
trailing_tool_messages_unreversed(msgs) == recent_tool_messages(msgs)

trailing_tool_messages(msgs) == Reversed(recent_tool_messages(msgs))

\* generate, lines 77-88: the system instruction ending in docs_content.
SystemInstruction == "You are an assistant for question-answering tasks. "

RECURSIVE ContentsOf(_)
ContentsOf(msgs) ==
    IF msgs = <<>> THEN <<>> ELSE <<msgs[1].content>> \o ContentsOf(Tail(msgs))

docs_content(window) == Join("\n\n", ContentsOf(window))

system_message_content(window) == <<SystemInstruction>> \o docs_content(window)

\* generate, lines 90-95: the conversation without tool messages and
\* without the ai messages that request a tool.
RECURSIVE conversation_messages_all_ai(_)
conversation_messages_all_ai(msgs) ==
    IF msgs = <<>> THEN <<>>
    ELSE (IF msgs[1].type \in {"human", "system", "ai"}
          THEN <<msgs[1]>> ELSE <<>>)
         \o conversation_messages_all_ai(Tail(msgs))

RECURSIVE conversation_messages(_)
conversation_messages(msgs) ==
    IF msgs = <<>> THEN <<>>
    ELSE (IF msgs[1].type \in {"human", "system"}
             \/ (msgs[1].type = "ai" /\ msgs[1].tool_calls = <<>>)
          THEN <<msgs[1]>> ELSE <<>>)
         \o conversation_messages(Tail(msgs))

\* generate, line 96
generate_prompt(msgs) ==
    <<SystemMessage(system_message_content(trailing_tool_messages(msgs)))>>
    \o conversation_messages(msgs)

\* tools_condition: the edge out of query_or_respond.
tools_condition_always_tools(msgs) == "tools"

tools_condition(msgs) ==
    IF msgs[Len(msgs)].type = "ai" /\ msgs[Len(msgs)].tool_calls # <<>>
    THEN "tools" ELSE "END"

\* The edges of the graph: the node that follows a node.
edge_looping(from, msgs) ==
    CASE from = "query_or_respond" -> tools_condition(msgs)
      [] from = "tools" -> "generate"
      [] from = "generate" -> "query_or_respond"

edge(from, msgs) ==
    CASE from = "query_or_respond" -> tools_condition(msgs)
      [] from = "tools" -> "generate"
      [] from = "generate" -> "END"

\* What the model can answer in the two nodes.
DecideResponses ==
    { AIMessage(<<"Longbows deal 6-8 damage">>, <<>>),
      AIMessage(<<>>, <<>>),
      AIMessage(<<>>, <<ToolCall("retrieve", "bows", "call_1")>>),
      AIMessage(<<"Let me look that up">>,
                <<ToolCall("retrieve", "bows", "call_1")>>),
      AIMessage(<<>>, <<ToolCall("retrieve", "bows", "call_1"),
                        ToolCall("retrieve", "crossbows", "call_2")>>),
      AIMessage(<<>>, <<ToolCall("lookup", "bows", "call_1")>>) }

GenerateResponses ==
    { AIMessage(<<"The Longbow is the best bow">>, <<>>),
      AIMessage(<<"I don't know">>, <<>>) }

\* ask_question returns the content of the last message once the graph
\* has ended.
answer_of(msgs) == Some(msgs[Len(msgs)].content)

AfterNode(from, msgs) ==
    /\ next_node' = edge(from, msgs)
    /\ node_runs' = Append(node_runs, from)
    /\ ask_answer' = IF edge(from, msgs) = "END" THEN answer_of(msgs) ELSE None

\* query_or_respond
QueryOrRespond ==
    /\ next_node = "query_or_respond"
    /\ \E response \in DecideResponses :
          /\ llm_calls' = Append(llm_calls,
                [node |-> "query_or_respond", tools |-> <<"retrieve">>,
                 input |-> messages, output |-> response])
          /\ messages' = Append(messages, response)
          /\ AfterNode("query_or_respond", Append(messages, response))
    /\ UNCHANGED <<searches, tool_messages>>

\* tools
Tools ==
    /\ next_node = "tools"
    /\ LET calls == messages[Len(messages)].tool_calls
       IN  \E contexts \in [1..Len(calls) -> Contexts] :
              /\ searches' = searches \o tool_node_searches(calls, 1)
              /\ messages' = messages \o tool_node_messages(calls, contexts, 1)
              /\ AfterNode("tools", messages \o tool_node_messages(calls, contexts, 1))
    /\ UNCHANGED <<llm_calls, tool_messages>>

\* generate
Generate ==
    /\ next_node = "generate"
    /\ \E response \in GenerateResponses :
          /\ tool_messages' = trailing_tool_messages(messages)
          /\ llm_calls' = Append(llm_calls,
                [node |-> "generate", tools |-> <<>>,
                 input |-> generate_prompt(messages), output |-> response])
          /\ messages' = Append(messages, response)
          /\ AfterNode("generate", Append(messages, response))
    /\ UNCHANGED searches

not_graph == <<vars, schema_vars, ingest_vars, aps_vars, request_vars>>

\* ask_question: the graph is invoked on the question alone.
InitGraph ==
    /\ next_node = "query_or_respond"
    /\ \E q \in Questions : messages = <<HumanMessage(<<q>>)>>
    /\ node_runs = <<>>
    /\ searches = <<>>
    /\ llm_calls = <<>>
    /\ tool_messages = <<>>
    /\ ask_answer = None
    /\ OrchestratorIdle /\ SchemaIdle /\ IngestIdle /\ ApsIdle /\ RequestsIdle

NextGraph ==
    \/ QueryOrRespond /\ UNCHANGED not_graph
    \/ Tools /\ UNCHANGED not_graph
    \/ Generate /\ UNCHANGED not_graph

SpecGraph == InitGraph /\ [][NextGraph]_all_vars

\* generate called on any state: every sequence of up to MaxMessages
\* messages.
MessageKinds ==
    { HumanMessage(<<"Which bows exist?">>),
      SystemMessage(<<"Answer briefly">>),
      AIMessage(<<"Longbows deal 6-8 damage">>, <<>>),
      AIMessage(<<>>, <<ToolCall("retrieve", "bows", "call_1")>>),
      ToolMessage(<<"A">>, "call_1", <<>>),
      ToolMessage(<<"B">>, "call_2", <<>>) }

MessageSeqs == UNION { [1..n -> MessageKinds] : n \in 0..MaxMessages }

InitGenerate ==
    /\ next_node = "generate"
    /\ messages \in MessageSeqs
    /\ node_runs = <<>>
    /\ searches = <<>>
    /\ llm_calls = <<>>
    /\ tool_messages = <<>>
    /\ ask_answer = None
    /\ OrchestratorIdle /\ SchemaIdle /\ IngestIdle /\ ApsIdle /\ RequestsIdle

NextGenerate == Generate /\ UNCHANGED not_graph

SpecGenerate == InitGenerate /\ [][NextGenerate]_all_vars

\* ----------------------------------------------- claims on the graph
CallsOf(kind) == { i \in 1..Len(llm_calls) : llm_calls[i].node = kind }
RunsOf(kind) == { i \in 1..Len(node_runs) : node_runs[i] = kind }
DecideResponse == llm_calls[1].output

RECURSIVE RetrieveCalls(_)
RetrieveCalls(calls) ==
    IF calls = <<>> THEN 0
    ELSE (IF calls[1].name = "retrieve" THEN 1 ELSE 0) + RetrieveCalls(Tail(calls))

GraphOrder ==
    /\ node_runs \in { <<>>, <<"query_or_respond">>,
                       <<"query_or_respond", "tools">>,
                       <<"query_or_respond", "tools", "generate">> }
    /\ next_node = "END" => Cardinality(RunsOf("query_or_respond")) = 1
    /\ Cardinality(CallsOf("query_or_respond")) = Cardinality(RunsOf("query_or_respond"))
    /\ Cardinality(CallsOf("generate")) = Cardinality(RunsOf("generate"))
    /\ Cardinality(CallsOf("generate")) <= 1

\* C11 as claimed: one run of the graph performs at most one
\* similarity_search and at most one generate call, decide runs exactly
\* once and control never returns to it, whatever the decide response.
C11_AtMostOneSearch ==
    /\ GraphOrder
    /\ Len(searches) <= 1

\* C11 amended: one run of the graph runs the retrieve node at most once
\* and generate at most once, decide runs exactly once and control never
\* returns to it; the retrieve node performs one similarity_search per
\* retrieve request of the decide response, so several for a response
\* that carries several requests.
C11_AtMostOneRetrieveRun ==
    /\ GraphOrder
    /\ Cardinality(RunsOf("tools")) <= 1
    /\ Len(searches) =
         IF RunsOf("tools") = {} THEN 0
         ELSE RetrieveCalls(DecideResponse.tool_calls)

C11_Witness ==
    /\ next_node = "END"
    /\ node_runs = <<"query_or_respond", "tools", "generate">>
    /\ Len(DecideResponse.tool_calls) = 2
    /\ Len(searches) = 2

\* C12: the decide response is always appended; with no pending tool
\* call the graph ends at once and /ask answers with that message's
\* content; otherwise retrieve runs, then generate, and /ask answers
\* with the content of generate's response.
C12_Routing ==
    node_runs # <<>> =>
      /\ Len(messages) >= 2
      /\ messages[1] = llm_calls[1].input[1]
      /\ messages[2] = DecideResponse
      /\ DecideResponse.tool_calls = <<>>
           => /\ next_node = "END"
              /\ node_runs = <<"query_or_respond">>
              /\ searches = <<>>
              /\ Len(llm_calls) = 1
              /\ ask_answer = Some(DecideResponse.content)
      /\ DecideResponse.tool_calls # <<>>
           => /\ next_node = "END"
                   <=> node_runs = <<"query_or_respond", "tools", "generate">>
              /\ next_node = "tools" <=> node_runs = <<"query_or_respond">>
              /\ next_node = "generate"
                   <=> node_runs = <<"query_or_respond", "tools">>
              /\ next_node # "END" => ask_answer = None
              /\ next_node = "END"
                   => /\ llm_calls[2].node = "generate"
                      /\ messages[Len(messages)] = llm_calls[2].output
                      /\ ask_answer = Some(llm_calls[2].output.content)

C12_Witness ==
    /\ next_node = "END"
    /\ DecideResponse.content = <<"Let me look that up">>
    /\ ask_answer = Some(<<"I don't know">>)
    /\ node_runs = <<"query_or_respond", "tools", "generate">>

\* ---------------------------------------------- claims on generate
\* The messages generate was called on.
GenerateInput == SubSeq(messages, 1, Len(messages) - 1)

IsMaximalToolSuffix(msgs, window) ==
    \E k \in 0..Len(msgs) :
        /\ window = SubSeq(msgs, k + 1, Len(msgs))
        /\ \A i \in (k + 1)..Len(msgs) : msgs[i].type = "tool"
        /\ k = 0 \/ msgs[k].type # "tool"

\* C13: the window generate computes is the maximal suffix of tool
\* messages, in their order; it is empty when the last message is no
\* tool message.
C13_TrailingToolWindow ==
    node_runs = <<"generate">> =>
      /\ IsMaximalToolSuffix(GenerateInput, tool_messages)
      /\ (GenerateInput = <<>>
            \/ GenerateInput[Len(GenerateInput)].type # "tool")
           => tool_messages = <<>>
      /\ llm_calls[1].input[1].content =
           <<SystemInstruction>> \o Join("\n\n", ContentsOf(tool_messages))

C13_Witness ==
    /\ node_runs = <<"generate">>
    /\ Len(GenerateInput) = 4
    /\ GenerateInput[1].type = "human"
    /\ GenerateInput[2].tool_calls # <<>>
    /\ tool_messages = <<ToolMessage(<<"A">>, "call_1", <<>>),
                         ToolMessage(<<"B">>, "call_2", <<>>)>>

Kept(m) ==
    \/ m.type \in {"human", "system"}
    \/ m.type = "ai" /\ m.tool_calls = <<>>

\* C14: the prompt generate sends is the system instruction followed by
\* the human messages, the system messages and the ai messages without a
\* pending tool call, in their order, and nothing else.
C14_ConversationFilter ==
    node_runs = <<"generate">> =>
      LET prompt == llm_calls[1].input
      IN  /\ prompt[1].type = "system"
          /\ prompt[1].content[1] = SystemInstruction
          /\ Tail(prompt) = SelectSeq(GenerateInput, Kept)
          /\ \A i \in 2..Len(prompt) :
                /\ prompt[i].type # "tool"
                /\ prompt[i].tool_calls = <<>>

C14_Witness ==
    /\ node_runs = <<"generate">>
    /\ Len(GenerateInput) = 4
    /\ GenerateInput[1].type = "ai" /\ GenerateInput[1].tool_calls # <<>>
    /\ GenerateInput[2].type = "ai" /\ GenerateInput[2].tool_calls = <<>>
    /\ GenerateInput[3].type = "tool"
    /\ GenerateInput[4].type = "human"
    /\ Len(llm_calls[1].input) = 3

\* ======================================================== schema adapter
\* convert_schema called on a tree, and again on the same dict object.

\* Largest number of conversions of one dict object.
MaxConversions == 2

\* Schema trees: leaves, with and without sibling fields, and object and
\* array nodes over them, two levels deep.
Siblings == [description |-> "kind of item", enum |-> <<"bow", "crossbow">>,
             default |-> "bow"]
Leaves ==
    { StringNode, [type |-> "string"] @@ Siblings,
      [type |-> "float"], [type |-> "float"] @@ Siblings,
      UntypedNode }

PropertyNames == {"type", "limit"}

NodesOver(children) ==
    Leaves
    \cup { [type |-> "object", properties |-> props] :
             props \in UNION { [names -> children] :
                                 names \in (SUBSET PropertyNames) \ {{}} } }
    \cup { [type |-> "object"], [type |-> "array"] }
    \cup { [type |-> "array", items |-> child] : child \in children }

SchemaTrees == NodesOver(NodesOver(Leaves))

InitSchema ==
    /\ schema_in \in SchemaTrees
    /\ schema_dict = schema_in
    /\ conversions = <<>>
    /\ OrchestratorIdle /\ GraphIdle /\ IngestIdle /\ ApsIdle /\ RequestsIdle

\* convert_schema(schema_dict) on the dict object as it is now
Convert ==
    /\ Len(conversions) < MaxConversions
    /\ \E r \in {convert_schema(schema_dict)} :
          /\ conversions' = Append(conversions,
                                   [raised |-> r.raised, schema |-> r.schema])
          /\ schema_dict' = r.after
    /\ UNCHANGED schema_in

NextSchema ==
    Convert /\ UNCHANGED <<vars, graph_vars, ingest_vars, aps_vars, request_vars>>

SpecSchema == InitSchema /\ [][NextSchema]_all_vars

\* No node of the tree lacks its type.
RECURSIVE WellFormed(_)
WellFormed(tree) ==
    /\ "type" \in DOMAIN tree
    /\ "properties" \in DOMAIN tree
         => \A k \in DOMAIN tree["properties"] : WellFormed(tree["properties"][k])
    /\ "items" \in DOMAIN tree => WellFormed(tree["items"])

\* C15: converting a well-formed tree a second time succeeds and yields
\* a result equal to the first conversion's.
C15_Idempotent ==
    (Len(conversions) >= 2 /\ WellFormed(schema_in))
      => /\ ~conversions[1].raised
         /\ ~conversions[2].raised
         /\ conversions[2].schema = conversions[1].schema

KnownTypes == {"string", "integer", "number", "boolean", "array", "object"}

\* The converted node has the mapped type, the fields of the original
\* node, the same property names and, below them and below items, nodes
\* converted in the same way.
RECURSIVE SameStructure(_, _)
SameStructure(tree, schema) ==
    /\ DOMAIN schema = DOMAIN tree
    /\ schema["type"] = IF tree["type"] \in KnownTypes
                        THEN CASE tree["type"] = "string" -> "STRING"
                               [] tree["type"] = "integer" -> "INTEGER"
                               [] tree["type"] = "number" -> "NUMBER"
                               [] tree["type"] = "boolean" -> "BOOLEAN"
                               [] tree["type"] = "array" -> "ARRAY"
                               [] tree["type"] = "object" -> "OBJECT"
                        ELSE "TYPE_UNSPECIFIED"
    /\ "properties" \in DOMAIN tree
         => /\ DOMAIN schema["properties"] = DOMAIN tree["properties"]
            /\ \A k \in DOMAIN tree["properties"] :
                  SameStructure(tree["properties"][k], schema["properties"][k])
    /\ "items" \in DOMAIN tree => SameStructure(tree["items"], schema["items"])

\* C16: the conversion of an object node has exactly the property names
\* of the node, each with the conversion of the original value; that of
\* an array node has the conversion of its items; an array node without
\* items converts, with no items.
C16_StructurePreserved ==
    (Len(conversions) >= 1 /\ WellFormed(schema_in))
      => LET converted == conversions[1].schema
         IN  /\ ~conversions[1].raised
             /\ SameStructure(schema_in, converted)
             /\ "properties" \in DOMAIN schema_in
                  => \A k \in DOMAIN schema_in["properties"] :
                        converted["properties"][k] =
                          convert_schema(schema_in["properties"][k]).schema
             /\ "items" \in DOMAIN schema_in
                  => converted["items"] = convert_schema(schema_in["items"]).schema
             /\ (schema_in["type"] = "array" /\ "items" \notin DOMAIN schema_in)
                  => "items" \notin DOMAIN converted

C16_Witness ==
    /\ Len(conversions) = 1
    /\ ~conversions[1].raised
    /\ "properties" \in DOMAIN schema_in
    /\ DOMAIN schema_in["properties"] = {"type", "limit"}
    /\ DOMAIN conversions[1].schema["properties"] = {"type", "limit"}
    /\ conversions[1].schema["properties"]["limit"] =
         [type |-> "ARRAY", items |-> [type |-> "STRING"]]
    /\ conversions[1].schema["properties"]["type"] = [type |-> "ARRAY"]

\* C17: a node of an unknown type converts, to the unspecified type, and
\* every field of a node other than type, properties and items is in the
\* converted node unchanged.
C17_UnknownKept ==
    (Len(conversions) >= 1 /\ "type" \in DOMAIN schema_in)
      => /\ schema_in["type"] \notin KnownTypes
              => /\ ~conversions[1].raised
                 /\ conversions[1].schema["type"] = "TYPE_UNSPECIFIED"
         /\ ~conversions[1].raised
              => \A k \in DOMAIN schema_in \ {"type", "properties", "items"} :
                    /\ k \in DOMAIN conversions[1].schema
                    /\ conversions[1].schema[k] = schema_in[k]

C17_Witness ==
    /\ Len(conversions) = 1
    /\ schema_in = [type |-> "float"] @@ Siblings
    /\ conversions[1].schema = [type |-> "TYPE_UNSPECIFIED"] @@ Siblings

\* C18: building the declarations leaves every tool as it was listed:
\* at every point of the request the tools, input_schema trees
\* included, equal the tools that list_tools returned.
C18_ToolSpecsUnchanged == tools = listed_tools

\* ======================================================= unit conversion
\* calculate_attacks_per_second.  A rate is held in hundredths of an
\* attack per second (200 is 2.00), the precision round(..., 2) keeps.

\* round(p / q, 2) in hundredths for q > 0: the nearest hundredth, and the
\* even one when the quotient is exactly half way (Python's round).
round_2(p, q) ==
    LET scaled == 100 * p
        whole == scaled \div q
        rest == scaled % q
    IN  IF 2 * rest < q THEN whole
        ELSE IF 2 * rest > q THEN whole + 1
        ELSE IF whole % 2 = 0 THEN whole ELSE whole + 1

\* The conversion with the quotient cut off after two decimals.
calculate_attacks_per_second_truncating(duration_ms) ==
    IF duration_ms <= 0
    THEN [raised |-> TRUE, error |-> "ValueError",
          message |-> "Attack duration must be positive",
          value |-> 0, divisions |-> 0]
    ELSE [raised |-> FALSE, error |-> "", message |-> "",
          value |-> (100 * 1000) \div duration_ms, divisions |-> 1]

\* calculate_attacks_per_second(attack_duration_ms): what it raises or
\* returns, and how many divisions it performed.
calculate_attacks_per_second(duration_ms) ==
    IF duration_ms <= 0
    THEN [raised |-> TRUE, error |-> "ValueError",
          message |-> "Attack duration must be positive",
          value |-> 0, divisions |-> 0]
    ELSE [raised |-> FALSE, error |-> "", message |-> "",
          value |-> round_2(1000, duration_ms), divisions |-> 1]

\* ============================================================= ingestion
\* commands/create_rag.py main: the released items of base_items become
\* documents of the vector store, keyed by their path.

\* Largest number of runs of the ingestion over the same records.
MaxRuns == 2

\* The mods the implicits of the items refer to.
mods ==
    [RingImplicit1 |->
       [text |-> "+# to maximum Life", stats |-> <<[min |-> 20, max |-> 30]>>]]

\* Item records of base_items.min.json.
CrudeBow ==
    [domain |-> "item", release_state |-> "released", name |-> "Crude Bow",
     item_class |-> "Bow", tags |-> <<"bow", "ranged">>,
     requirements |-> Some([strength |-> 0, dexterity |-> 14]),
     drop_level |-> 1, implicits |-> <<>>,
     properties |-> [attack_time |-> Some(1250),
                     critical_strike_chance |-> Some(500),
                     quality |-> Some(20), range |-> None]]
IronRing ==
    [domain |-> "item", release_state |-> "released", name |-> "Iron Ring",
     item_class |-> "Ring", tags |-> <<>>, requirements |-> None,
     drop_level |-> 5, implicits |-> <<"RingImplicit1">>,
     properties |-> EmptyMap]
BrokenBow == [CrudeBow EXCEPT !.name = "Broken Bow",
                              !.properties["attack_time"] = Some(0)]
UnreleasedBow == [CrudeBow EXCEPT !.name = "Unreleased Bow",
                                  !.release_state = "unreleased"]
MiscRing == [IronRing EXCEPT !.name = "Misc Ring", !.domain = "misc"]
ItemRecords == {CrudeBow, IronRing, BrokenBow, UnreleasedBow, MiscRing}

\* The Python values an item's "path" can hold: a str, an int or None.
PyStr(string) == [type |-> "str", str |-> string]
PyInt(number) == [type |-> "int", int |-> number]
PyNone == [type |-> "NoneType"]

\* bool(value): an empty str, 0 and None are false.
PyTruthy(object) ==
    CASE object.type = "str" -> object.str # ""
      [] object.type = "int" -> object.int # 0
      [] OTHER -> FALSE

\* The value as the text of an id.
PyRepr(object) ==
    CASE object.type = "str" -> object.str
      [] object.type = "int" -> ToString(object.int)
      [] OTHER -> "None"

\* The keys of base_items, in the order of the JSON object.
PathOrder == <<"Metadata/Items/Bows/Bow1", "", "Metadata/Items/Rings/Ring1">>
Paths == {PathOrder[i] : i \in 1..Len(PathOrder)}

IsReleasedItem(value) ==
    value.domain = "item" /\ value.release_state = "released"

\* The responses of the base items URL, with at least one released item.
BaseItems ==
    { res \in UNION { [keys -> ItemRecords] : keys \in SUBSET Paths } :
        \E path \in DOMAIN res : IsReleasedItem(res[path]) }

\* The loop of main over res.items(): the released items, each with its
\* path written into it.
RECURSIVE released_items(_, _)
released_items(res, i) ==
    IF i > Len(PathOrder) THEN <<>>
    ELSE LET path == PathOrder[i]
         IN  IF path \in DOMAIN res /\ IsReleasedItem(res[path])
             THEN <<Put(res[path], "path", PyStr(path))>>
                  \o released_items(res, i + 1)
             ELSE released_items(res, i + 1)

mapping ==
    [armour |-> "Armour", energy_shield |-> "Energy Shield",
     evasion |-> "Evasion", movement_speed |-> "Movement Speed",
     block |-> "Block", description |-> "Description",
     directions |-> "Directions", stack_size |-> "Stack Size",
     stack_size_currency_tab |-> "Stack Size Currency Tab",
     full_stack_turns_into |-> "Full Stack Turns Into",
     charges_max |-> "Charges Max", charges_per_use |-> "Charges Per Use",
     duration |-> "Duration", life_per_use |-> "Life Per Use",
     mana_per_use |-> "Mana Per Use", attack_time |-> "Attack Time",
     critical_strike_chance |-> "Critical Strike Chance",
     physical_damage_max |-> "Physical Damage Max",
     physical_damage_min |-> "Physical Damage Min", range |-> "Range",
     mana_burn_ms |-> "Mana Burn MS", cooldown_ms |-> "Cooldown MS"]

\* The keys of an item's properties and requirements, in their order.
PropertyOrder == <<"attack_time", "critical_strike_chance", "quality", "range">>
RequirementOrder == <<"strength", "dexterity">>

\* The loop over properties.items(): the strings "label: val", a string
\* being held as its label, the unit of val and val's number (a rate and
\* a percentage in hundredths).
RECURSIVE properties_strings(_, _)
properties_strings(properties, i) ==
    IF i > Len(PropertyOrder)
    THEN [raised |-> FALSE, strings |-> <<>>]
    ELSE LET key == PropertyOrder[i]
             rest == properties_strings(properties, i + 1)
         IN  IF key \notin DOMAIN properties THEN rest
             ELSE IF properties[key] = None \/ key \notin DOMAIN mapping
             THEN rest
             ELSE LET val == properties[key][1]
                      atp == calculate_attacks_per_second(val)
                  IN  IF key = "attack_time" /\ atp.raised
                      THEN [raised |-> TRUE, strings |-> <<>>]
                      ELSE [raised |-> rest.raised,
                            strings |->
                              IF rest.raised THEN <<>>
                              ELSE << [label |-> mapping[key],
                                       unit |-> CASE key = "critical_strike_chance" -> "%"
                                                  [] key = "attack_time" -> " attacks per second"
                                                  [] key = "movement_speed" -> "%"
                                                  [] OTHER -> "",
                                       number |-> IF key = "attack_time"
                                                  THEN atp.value ELSE val] >>
                                   \o rest.strings]

RECURSIVE get_requirements_string(_, _)
get_requirements_string(requirements, i) ==
    IF i > Len(RequirementOrder) THEN <<>>
    ELSE LET key == RequirementOrder[i]
         IN  IF key \in DOMAIN requirements /\ requirements[key] # 0
             THEN <<[key |-> key, val |-> requirements[key]]>>
                  \o get_requirements_string(requirements, i + 1)
             ELSE get_requirements_string(requirements, i + 1)

get_implicit_string(implicits) ==
    [i \in 1..Len(implicits) |->
       [description |-> implicits[i].text,
        stats |-> [j \in 1..Len(implicits[i].stats) |->
                     [min_value |-> implicits[i].stats[j].min,
                      max_value |-> implicits[i].stats[j].max]]]]

Strs(words) == [i \in 1..Len(words) |-> <<words[i]>>]

\* The text of one item: the values the template of get_item_strings
\* interpolates, by the line of the template they stand on.
item_string(item, props) ==
    [name |-> item.name,
     item_class |-> item.item_class,
     tags |-> Join(", ", Strs(item.tags)),
     requirements |-> IF TruthyMap(item.requirements)
                      THEN get_requirements_string(item.requirements[1], 1)
                      ELSE <<>>,
     drop_level |-> item.drop_level,
     implicits |-> get_implicit_string(
                     [i \in 1..Len(item.implicits) |-> mods[item.implicits[i]]]),
     properties |-> props]

\* get_item_strings(items, mods): one text per item, or the ValueError of
\* an attack time that is not positive.
RECURSIVE get_item_strings(_, _)
get_item_strings(items, i) ==
    IF i > Len(items) THEN [raised |-> FALSE, strings |-> <<>>]
    ELSE LET props == properties_strings(items[i].properties, 1)
         IN  IF props.raised THEN [raised |-> TRUE, strings |-> <<>>]
             ELSE LET rest == get_item_strings(items, i + 1)
                  IN  [raised |-> rest.raised,
                       strings |-> IF rest.raised THEN <<>>
                                   ELSE <<item_string(items[i], props.strings)>>
                                        \o rest.strings]

transform_to_metadata_dict(item) ==
    [name |-> item.name,
     item_class |-> item.item_class,
     tags |-> Join(", ", Strs(item.tags)),
     drop_level |-> item.drop_level,
     implicits |-> Join(", ", Strs(item.implicits)),
     path |-> item.path]

\* An id taken from the item without the check.
get_item_id_unchecked(item) == [raised |-> FALSE, id |-> PyRepr(item.path)]

\* An id checked with `if not path` alone.
get_item_id_truthy_only(item) ==
    IF ~PyTruthy(item.path)
    THEN [raised |-> TRUE, id |-> ""]
    ELSE [raised |-> FALSE, id |-> PyRepr(item.path)]

\* get_item_id(item): the path, or a ValueError for a path that is
\* empty or is not a str.
get_item_id(item) ==
    IF ~PyTruthy(item.path) \/ item.path.type # "str"
    THEN [raised |-> TRUE, id |-> ""]
    ELSE [raised |-> FALSE, id |-> item.path.str]

\* ids=[get_item_id(item) for item in items]
RECURSIVE get_item_ids(_, _)
get_item_ids(items, i) ==
    IF i > Len(items) THEN [raised |-> FALSE, ids |-> <<>>]
    ELSE LET r == get_item_id(items[i])
         IN  IF r.raised THEN [raised |-> TRUE, ids |-> <<>>]
             ELSE LET rest == get_item_ids(items, i + 1)
                  IN  [raised |-> rest.raised,
                       ids |-> IF rest.raised THEN <<>> ELSE <<r.id>> \o rest.ids]

\* The rows of the collection: id, text and metadata.
Row(id, doc) == [id |-> id, text |-> doc.page_content, metadata |-> doc.metadata]

\* A store that adds a new row for every document it is given.
RECURSIVE add_documents_appending(_, _, _, _)
add_documents_appending(rows, docs, ids, i) ==
    IF i > Len(docs) THEN rows
    ELSE add_documents_appending(Append(rows, Row(ids[i], docs[i])), docs, ids, i + 1)

\* poe_store.add_documents(docs, ids=ids): a row whose id is in the
\* collection is replaced, another one is added.
RECURSIVE add_documents(_, _, _, _)
add_documents(rows, docs, ids, i) ==
    IF i > Len(docs) THEN rows
    ELSE LET row == Row(ids[i], docs[i])
             upserted ==
                 IF \E j \in 1..Len(rows) : rows[j].id = row.id
                 THEN [j \in 1..Len(rows) |->
                         IF rows[j].id = row.id THEN row ELSE rows[j]]
                 ELSE Append(rows, row)
         IN  add_documents(upserted, docs, ids, i + 1)

\* main(), given the response of the base items URL and the collection:
\* whether it raised and the collection it leaves.
main(res, rows) ==
    LET items == released_items(res, 1)
        item_strings == get_item_strings(items, 1)
        docs == [i \in 1..Len(items) |->
                   [page_content |-> item_strings.strings[i],
                    metadata |-> transform_to_metadata_dict(items[i])]]
        ids == get_item_ids(items, 1)
    IN  IF item_strings.raised \/ ids.raised
        THEN [raised |-> TRUE, rows |-> rows]
        ELSE [raised |-> FALSE, rows |-> add_documents(rows, docs, ids.ids, 1)]

\* insert_items(item_strings, items), given the collection: the outcomes
\* it can have. zip pairs the texts with the items up to the shorter
\* list, the ids are taken from every item, and an empty path raises
\* before add_documents is called. With as many ids as documents there is
\* one outcome; with more ids than documents the outcome is the
\* library's: a refusal, or the documents under the first ids.
insert_items(item_strings, items, rows) ==
    LET n == IF Len(item_strings) < Len(items)
             THEN Len(item_strings) ELSE Len(items)
        docs == [i \in 1..n |->
                   [page_content |-> item_strings[i],
                    metadata |-> transform_to_metadata_dict(items[i])]]
        ids == get_item_ids(items, 1)
    IN  IF ids.raised
        THEN {[raised |-> TRUE, rows |-> rows]}
        ELSE IF Len(docs) = Len(ids.ids)
        THEN {[raised |-> FALSE, rows |-> add_documents(rows, docs, ids.ids, 1)]}
        ELSE {[raised |-> TRUE, rows |-> rows],
              [raised |-> FALSE, rows |-> add_documents(rows, docs, ids.ids, 1)]}

\* The calls of insert_items tried: an item that is neither released nor
\* has a positive attack time, under a text made from another item; an
\* item with an empty path; an item whose path is an int; an item whose
\* path is None; one text for two items.
InsertCalls ==
    { [command |-> "insert_items",
       item_strings |-> <<item_string(IronRing, <<>>)>>,
       items |-> <<Put([BrokenBow EXCEPT !.release_state = "unreleased"],
                       "path", PyStr(PathOrder[1]))>>],
      [command |-> "insert_items",
       item_strings |-> <<item_string(CrudeBow, <<>>)>>,
       items |-> <<Put(CrudeBow, "path", PyStr(""))>>],
      [command |-> "insert_items",
       item_strings |-> <<item_string(CrudeBow, <<>>)>>,
       items |-> <<Put(CrudeBow, "path", PyInt(7))>>],
      [command |-> "insert_items",
       item_strings |-> <<item_string(IronRing, <<>>)>>,
       items |-> <<Put(IronRing, "path", PyNone)>>],
      [command |-> "insert_items",
       item_strings |-> <<item_string(CrudeBow, <<>>)>>,
       items |-> <<Put(CrudeBow, "path", PyStr(PathOrder[1])),
                   Put(IronRing, "path", PyStr(PathOrder[3]))>>] }

\* The call of the command: main takes no arguments.
MainCall == [command |-> "main", item_strings |-> <<>>, items |-> <<>>]

InitIngest ==
    /\ base_items \in BaseItems
    /\ store = <<>>
    /\ runs = <<>>
    /\ OrchestratorIdle /\ GraphIdle /\ SchemaIdle /\ ApsIdle /\ RequestsIdle

\* One run of the command over the same records.
RunMain ==
    /\ Len(runs) < MaxRuns
    /\ \E r \in {main(base_items, store)} :
          /\ store' = r.rows
          /\ runs' = Append(runs, [call |-> MainCall, raised |-> r.raised,
                                   before |-> store, rows |-> r.rows])
    /\ UNCHANGED base_items

\* One call of insert_items by a caller of the module.
InsertItems ==
    /\ Len(runs) < MaxRuns
    /\ \E call \in InsertCalls :
          \E r \in insert_items(call.item_strings, call.items, store) :
             /\ store' = r.rows
             /\ runs' = Append(runs, [call |-> call, raised |-> r.raised,
                                      before |-> store, rows |-> r.rows])
    /\ UNCHANGED base_items

NextIngest ==
    \/ RunMain /\ UNCHANGED <<vars, graph_vars, schema_vars, aps_vars, request_vars>>
    \/ InsertItems /\ UNCHANGED <<vars, graph_vars, schema_vars, aps_vars, request_vars>>

SpecIngest == InitIngest /\ [][NextIngest]_all_vars

\* The paths of the released items of the records.
ReleasedPaths == {path \in DOMAIN base_items : IsReleasedItem(base_items[path])}

RowSet(rows) == {rows[i] : i \in 1..Len(rows)}

\* A path that is empty or is not a string.
RejectedPath(path) == path.type # "str" \/ path.str = ""

\* A call that gives one text for each item.
OneTextPerItem(call) == Len(call.item_strings) = Len(call.items)

\* C19: a second ingestion of the same records, by main or by insert_items
\* with one text per item, leaves the rows of the first one; the command
\* alone leaves one row per path of a released item with the path as its
\* id, and insert_items leaves one row for each item under its path; an
\* ingestion of an item whose path is empty or is not a string raises and
\* stores no row for it.
C19_IngestIdempotent ==
    /\ \A n \in 1..(Len(runs) - 1) :
          runs[n + 1].call = runs[n].call /\ OneTextPerItem(runs[n].call)
            => /\ RowSet(runs[n + 1].rows) = RowSet(runs[n].rows)
               /\ Len(runs[n + 1].rows) = Len(runs[n].rows)
               /\ runs[n + 1].raised = runs[n].raised
    /\ \A n \in 1..Len(runs) :
          /\ (\A m \in 1..n : runs[m].call = MainCall) /\ ~runs[n].raised
               => /\ {row.id : row \in RowSet(runs[n].rows)} = ReleasedPaths
                  /\ Len(runs[n].rows) = Cardinality(ReleasedPaths)
                  /\ \A row \in RowSet(runs[n].rows) :
                        /\ row.metadata.path = PyStr(row.id)
                        /\ row.metadata.name = base_items[row.id].name
                        /\ row.text.name = base_items[row.id].name
          /\ runs[n].call = MainCall /\ "" \in ReleasedPaths
               => runs[n].raised
          /\ runs[n].call # MainCall
               => /\ (\E i \in 1..Len(runs[n].call.items) :
                         RejectedPath(runs[n].call.items[i].path))
                       => runs[n].raised /\ runs[n].rows = runs[n].before
                  /\ ~runs[n].raised /\ OneTextPerItem(runs[n].call)
                       => \A i \in 1..Len(runs[n].call.items) :
                             Cardinality(
                               {j \in 1..Len(runs[n].rows) :
                                  /\ runs[n].rows[j].id =
                                       runs[n].call.items[i].path.str
                                  /\ runs[n].rows[j].text = runs[n].call.item_strings[i]
                                  /\ runs[n].rows[j].metadata =
                                       transform_to_metadata_dict(runs[n].call.items[i])})
                             = 1
          /\ \A row \in RowSet(runs[n].rows) : row.id # ""
          /\ \A j, k \in 1..Len(runs[n].rows) :
                runs[n].rows[j].id = runs[n].rows[k].id => j = k

C19_Witness ==
    /\ Len(runs) = 2
    /\ runs[1].call = MainCall /\ runs[2].call = MainCall
    /\ ~runs[1].raised /\ ~runs[2].raised
    /\ Len(store) = 2
    /\ \E i \in 1..2 : /\ store[i].id = "Metadata/Items/Bows/Bow1"
                       /\ store[i].metadata.name = "Crude Bow"
                       /\ store[i].text.properties[1].number = 80

\* ------------------------------------------------ the unit conversion
\* Durations tried: from -MaxNonPositive to MaxDuration milliseconds.
MaxDuration == 520
MaxNonPositive == 3

InitAps ==
    /\ attack_duration_ms \in (0 - MaxNonPositive)..MaxDuration
    /\ attacks_per_second = None
    /\ OrchestratorIdle /\ GraphIdle /\ SchemaIdle /\ IngestIdle /\ RequestsIdle

\* calculate_attacks_per_second(attack_duration_ms)
Calculate ==
    /\ attacks_per_second = None
    /\ attacks_per_second' = Some(calculate_attacks_per_second(attack_duration_ms))
    /\ UNCHANGED attack_duration_ms

NextAps ==
    Calculate /\ UNCHANGED <<vars, graph_vars, schema_vars, ingest_vars, request_vars>>

SpecAps == InitAps /\ [][NextAps]_all_vars

Abs(n) == IF n < 0 THEN 0 - n ELSE n

\* C20: for a positive duration the result is the hundredth nearest to
\* 1000 / attack_duration_ms (2.00 for 500); for a duration of zero or
\* less the call raises the validation error without having divided.
C20_AttacksPerSecond ==
    attacks_per_second # None
      => LET r == attacks_per_second[1]
         IN  /\ attack_duration_ms > 0
                  => /\ ~r.raised
                     /\ 2 * Abs(r.value * attack_duration_ms - 100 * 1000)
                          <= attack_duration_ms
                     /\ attack_duration_ms = 500 => r.value = 200
             /\ attack_duration_ms <= 0
                  => /\ r.raised
                     /\ r.error = "ValueError"
                     /\ r.divisions = 0

C20_Witness ==
    /\ attack_duration_ms = 300
    /\ attacks_per_second # None
    /\ ~attacks_per_second[1].raised
    /\ attacks_per_second[1].value = 333

\* ==================================================== concurrent requests
\* Two requests served at once on one event loop.  A request is a call
\* of ask_question or of ask_question_with_tools; its frame holds the
\* local variables of the call.  A request runs without interruption
\* from one await to the next, and the other request runs only while it
\* is suspended in an await; ask_question has no await.  The
\* module-level llm, client and poe_store are the only objects two calls
\* have in common.

RequestIds == {"r1", "r2"}

\* What the collaborators answer to a request: list_tools, the model of
\* ask_question_with_tools, call_tool, the model in query_or_respond and
\* similarity_search.
RequestAnswers ==
    [tool_lists |->
       { <<ToolSpec("get_items", GetItemsSchema)>>,
         <<ToolSpec("bad_property", BadPropertySchema)>> },
     responses |->
       { Response(Some(AnswerText), <<TextPart(AnswerText)>>),
         Response(None, <<CallPart(Some("get_items"), Some([type |-> "bow"]))>>),
         Response(None, <<OtherPart>>) },
     tool_results |->
       { [isError |-> FALSE, content |-> <<TextContent(ItemsJSON)>>],
         [isError |-> TRUE, content |-> <<TextContent("Unknown tool")>>] },
     decide_responses |->
       { AIMessage(<<"Longbows deal 6-8 damage">>, <<>>),
         AIMessage(<<>>, <<ToolCall("retrieve", "bows", "call_1")>>),
         AIMessage(<<>>, <<ToolCall("retrieve", "bows", "call_1"),
                           ToolCall("retrieve", "crossbows", "call_2")>>) },
     contexts |-> { <<>>, <<Longbow>> }]

\* The locals of a call that has just been entered.
new_frame(handler, q) ==
    [handler |-> handler,
     pc |-> IF handler = "ask_question" THEN "query_or_respond" ELSE "start",
     question |-> q,
     session |-> "unopened",
     tools |-> <<>>,
     declarations |-> <<>>,
     content |-> <<>>,
     ai_res |-> NoResponse,
     messages |-> IF handler = "ask_question" THEN <<HumanMessage(<<q>>)>> ELSE <<>>,
     result |-> Running,
     heard |-> <<>>]

\* A value bound to a name: Body(value).
With(value, Body(_)) == Body(value)

\* A return or a raise inside the two async with blocks: the outcome is
\* decided, the two __aexit__ calls are still to be awaited.
leave(f, outcome) == [f EXCEPT !.result = outcome, !.pc = "exiting"]

\* ask_question_with_tools from one await or model call to the next;
\* input is what the collaborator called at this point answers.
ask_question_with_tools_step(f, input) ==
    CASE f.pc = "start" ->
           [f EXCEPT !.session = "sse_open", !.pc = "sse_entered"]
      [] f.pc = "sse_entered" ->
           [f EXCEPT !.session = "open", !.pc = "entered"]
      [] f.pc = "entered" ->
           [f EXCEPT !.session = "initialized", !.pc = "initialized"]
      [] f.pc = "exiting" ->
           [f EXCEPT !.session = IF session_on_exit(f.result.status) = "closed"
                                 THEN "sse_open" ELSE f.session,
                     !.pc = "exiting_sse"]
      [] f.pc = "exiting_sse" ->
           [f EXCEPT !.session = session_on_exit(f.result.status),
                     !.pc = "done"]
      [] f.pc = "initialized" ->
           With(tools_res_to_gemini_func_declaration(input),
                LAMBDA r :
                  IF r.raised
                  THEN leave([f EXCEPT !.tools = r.after],
                             Raise("ValueError",
                                   <<"types.Schema missing 'type' field">>))
                  ELSE [f EXCEPT !.tools = r.after,
                                 !.declarations = r.declarations,
                                 !.content = <<UserContent(f.question)>>,
                                 !.pc = "await_model"])
      [] f.pc = "await_model" ->
           With(after_first_response(input),
                LAMBDA checked :
                  IF checked.next = "call"
                  THEN [f EXCEPT !.ai_res = input, !.pc = "tool_requested"]
                  ELSE leave([f EXCEPT !.ai_res = input], checked.outcome))
      [] f.pc = "tool_requested" ->
           With(dump_function_response(input),
                LAMBDA d :
                  IF d.raised THEN leave(f, d.error)
                  ELSE [f EXCEPT
                          !.content = fold_back(
                              f.content,
                              f.ai_res.candidates[1].content[1].parts[1].function_call[1],
                              d.value),
                          !.pc = "await_model_2"])
      [] f.pc = "await_model_2" ->
           leave([f EXCEPT !.ai_res = input], after_second_response(input).outcome)

\* graph.invoke of ask_question, node by node.
ask_question_step(f, input) ==
    LET msgs == CASE f.pc = "query_or_respond" -> Append(f.messages, input)
                  [] f.pc = "tools" ->
                       f.messages \o tool_node_messages(
                           f.messages[Len(f.messages)].tool_calls, input, 1)
                  [] f.pc = "generate" -> Append(f.messages, input)
        prompt == IF f.pc = "generate" THEN generate_prompt(f.messages) ELSE f.content
    IN  IF edge(f.pc, msgs) = "END"
        THEN [f EXCEPT !.messages = msgs, !.content = prompt, !.pc = "done",
                       !.result = Return(answer_of(msgs)[1])]
        ELSE [f EXCEPT !.messages = msgs, !.content = prompt,
                       !.pc = edge(f.pc, msgs)]

\* One step of a request, and the answer it heard.
request_step(f, input) ==
    LET after == IF f.handler = "ask_question"
                 THEN ask_question_step(f, input)
                 ELSE ask_question_with_tools_step(f, input)
    IN  [after EXCEPT !.heard = Append(f.heard, input)]

\* What the collaborator called at this point of a request can answer.
answers_at(f) ==
    CASE f.pc \in {"start", "sse_entered", "entered", "exiting", "exiting_sse"} ->
           {"awaited"}
      [] f.pc = "initialized" -> RequestAnswers.tool_lists
      [] f.pc \in {"await_model", "await_model_2"} -> RequestAnswers.responses
      [] f.pc = "tool_requested" -> RequestAnswers.tool_results
      [] f.pc = "query_or_respond" -> RequestAnswers.decide_responses
      [] f.pc = "tools" ->
           [1..Len(f.messages[Len(f.messages)].tool_calls) ->
              RequestAnswers.contexts]
      [] f.pc = "generate" -> GenerateResponses
      [] OTHER -> {}

\* The calls a step makes on the shared client and store.
connections_after(f, used) ==
    [model_client |->
       used.model_client
         + (IF f.pc \in {"await_model", "await_model_2", "query_or_respond", "generate"}
            THEN 1 ELSE 0),
     vector_store |->
       used.vector_store
         + (IF f.pc = "tools"
            THEN Len(tool_node_searches(f.messages[Len(f.messages)].tool_calls, 1))
            ELSE 0)]

\* A conversation kept in one module-level list: what a request appends
\* is seen by every request.
store_locals_shared_conversation(frames, rid, f) ==
    [x \in DOMAIN frames |->
       IF x = rid THEN f
       ELSE [frames[x] EXCEPT !.content = f.content, !.messages = f.messages]]

\* The step's assignments go to the locals of the request that runs it.
store_locals(frames, rid, f) == [frames EXCEPT ![rid] = f]

InitRequests ==
    /\ requests \in [RequestIds ->
                       {new_frame(h, q) :
                          h \in {"ask_question", "ask_question_with_tools"},
                          q \in Questions}]
    /\ connections = [model_client |-> 0, vector_store |-> 0]
    /\ OrchestratorIdle /\ GraphIdle /\ SchemaIdle /\ IngestIdle /\ ApsIdle

\* A request at one of these points is not at an await and goes on: the
\* model calls of ask_question_with_tools and the nodes of graph.invoke
\* are synchronous.
Uninterrupted(f) == f.pc \in {"await_model", "await_model_2", "tools", "generate"}

\* The request runs on to its next await or to its end, where it leaves
\* its locals f and the calls made on the shared client and store.
RECURSIVE RunToAwait(_, _, _)
RunToAwait(rid, f, used) ==
    IF Uninterrupted(f)
    THEN \E input \in answers_at(f) :
            RunToAwait(rid, request_step(f, input), connections_after(f, used))
    ELSE /\ requests' = store_locals(requests, rid, f)
         /\ connections' = used

\* The event loop resumes a request that has not ended with the answer
\* it awaits.
StepRequest ==
    \E rid \in RequestIds :
       \E input \in answers_at(requests[rid]) :
          RunToAwait(rid, request_step(requests[rid], input),
                     connections_after(requests[rid], connections))

NextRequests ==
    StepRequest /\ UNCHANGED <<vars, graph_vars, schema_vars, ingest_vars, aps_vars>>

SpecRequests == InitRequests /\ [][NextRequests]_all_vars

\* The request run alone from its start, hearing the same answers.
RECURSIVE RunAlone(_, _)
RunAlone(f, answered) ==
    IF answered = <<>> THEN f
    ELSE RunAlone(request_step(f, Head(answered)), Tail(answered))

\* C21: at every point of every interleaving each request's conversation,
\* declarations, session and outcome are those of the same request run
\* alone with the answers it has heard so far.
C21_RequestsIndependent ==
    \A rid \in RequestIds :
       requests[rid] = RunAlone(new_frame(requests[rid].handler,
                                          requests[rid].question),
                                requests[rid].heard)

C21_Witness ==
    /\ requests["r1"].handler = "ask_question_with_tools"
    /\ requests["r1"].pc = "exiting"
    /\ requests["r1"].session = "initialized"
    /\ requests["r1"].result = Return(AnswerText)
    /\ Len(requests["r1"].content) = 3
    /\ requests["r2"].handler = "ask_question_with_tools"
    /\ requests["r2"].pc = "tool_requested"
    /\ requests["r2"].content = <<UserContent(requests["r2"].question)>>
    /\ requests["r1"].question # requests["r2"].question
    /\ connections = [model_client |-> 3, vector_store |-> 0]

\* ================================================ the graph on any seed
\* graph.invoke on message sequences a caller can hand it: the question
\* alone, the question after an earlier retrieval, and a sequence that
\* ends with a tool message.
StaleToolMessage == ToolMessage(<<"Content: Name: Rusty Sword">>, "call_0", <<>>)

SeedMessages ==
    UNION { { <<HumanMessage(<<q>>)>>,
              <<HumanMessage(<<"Which swords exist?">>),
                AIMessage(<<>>, <<ToolCall("retrieve", "swords", "call_0")>>),
                StaleToolMessage,
                AIMessage(<<"The Rusty Sword">>, <<>>),
                HumanMessage(<<q>>)>>,
              <<HumanMessage(<<q>>), StaleToolMessage>> } : q \in Questions }

InitSeeded ==
    /\ next_node = "query_or_respond"
    /\ messages \in SeedMessages
    /\ node_runs = <<>>
    /\ searches = <<>>
    /\ llm_calls = <<>>
    /\ tool_messages = <<>>
    /\ ask_answer = None
    /\ OrchestratorIdle /\ SchemaIdle /\ IngestIdle /\ ApsIdle /\ RequestsIdle

SpecSeeded == InitSeeded /\ [][NextGraph]_all_vars

\* C22: once generate has run, the window it collected is the run of
\* tool messages the retrieve node appended: one per tool-call request
\* of the decide response, in order, never empty, right after the decide
\* message, and with no tool message of the seed in it; the system
\* message of the prompt is built from that window.
C22_WindowIsThisRunsRetrieval ==
    RunsOf("generate") # {}
      => LET seed == llm_calls[1].input
             decide == llm_calls[1].output
             n == Len(decide.tool_calls)
         IN  /\ tool_messages # <<>>
             /\ Len(tool_messages) = n
             /\ messages[Len(seed) + 1] = decide
             /\ decide.type = "ai" /\ decide.tool_calls # <<>>
             /\ tool_messages = SubSeq(messages, Len(seed) + 2, Len(seed) + 1 + n)
             /\ \A i \in 1..n :
                   tool_messages[i].tool_call_id = decide.tool_calls[i].id
             /\ \A i \in 1..Len(tool_messages) : tool_messages[i] # StaleToolMessage
             /\ llm_calls[2].input[1] =
                  SystemMessage(system_message_content(
                      SubSeq(messages, Len(seed) + 2, Len(seed) + 1 + n)))

C22_Witness ==
    /\ node_runs = <<"query_or_respond", "tools", "generate">>
    /\ llm_calls[1].input[Len(llm_calls[1].input)] = StaleToolMessage
    /\ Len(llm_calls[1].output.tool_calls) = 2
    /\ Len(tool_messages) = 2

\* ============================================ ingestion into a used store
\* main run on a collection that an earlier ingestion has filled, when
\* the base items URL answered with an older record under the first path.
PriorStores ==
    { <<>>, main((PathOrder[1] :> IronRing), <<>>).rows }

InitIngestSeeded ==
    /\ base_items \in BaseItems
    /\ store \in PriorStores
    /\ runs = <<>>
    /\ OrchestratorIdle /\ GraphIdle /\ SchemaIdle /\ ApsIdle /\ RequestsIdle

SpecIngestSeeded == InitIngestSeeded /\ [][NextIngest]_all_vars

\* The items main hands to get_item_strings, and whether one of them has
\* an attack time that is not positive or an empty path.
ToIngest == released_items(base_items, 1)

FailsValidation(item) ==
    \/ item.path.type # "str"
    \/ item.path.str = ""
    \/ /\ "attack_time" \in DOMAIN item.properties
       /\ item.properties["attack_time"] # None
       /\ item.properties["attack_time"][1] <= 0

\* C23: a run over items of which one fails validation raises and leaves
\* the rows of the store as they were; a run over valid items writes, for
\* each released item, one row under its path with that item's text and
\* metadata, and changes no other row.
C23_AllOrNothing ==
    \A n \in {m \in 1..Len(runs) : runs[m].call = MainCall} :
       IF \E i \in 1..Len(ToIngest) : FailsValidation(ToIngest[i])
       THEN /\ runs[n].raised
            /\ runs[n].rows = runs[n].before
       ELSE /\ ~runs[n].raised
            /\ \A i \in 1..Len(ToIngest) :
                  /\ Cardinality({j \in 1..Len(runs[n].rows) :
                                    runs[n].rows[j].id = ToIngest[i].path.str}) = 1
                  /\ \E j \in 1..Len(runs[n].rows) :
                        /\ runs[n].rows[j].id = ToIngest[i].path.str
                        /\ runs[n].rows[j].metadata =
                             transform_to_metadata_dict(ToIngest[i])
                        /\ runs[n].rows[j].text.name = ToIngest[i].name
                        /\ IsReleasedItem(base_items[runs[n].rows[j].id])
            /\ \A row \in RowSet(runs[n].rows) :
                  \/ \E i \in 1..Len(ToIngest) : row.id = ToIngest[i].path.str
                  \/ row \in RowSet(runs[n].before)

C23_Witness ==
    /\ Len(runs) = 1
    /\ runs[1].call = MainCall
    /\ runs[1].before # <<>>
    /\ runs[1].raised
    /\ store = runs[1].before
    /\ \E i \in 1..Len(ToIngest) : ToIngest[i].path = PyStr("")
    /\ \A i \in 1..Len(ToIngest) : ToIngest[i].name # "Broken Bow"
====
